---- MODULE Spec2Model ----
(***************************************************************************)
(* Boomerang tables (BCT, BDT) of small S-boxes and higher-order           *)
(* derivatives of the reduced-round Gimli permutation.                     *)
(*                                                                         *)
(*   Spec       the two S-box programs: bct_present.c (N = 16, BCT only)   *)
(*              and "gimli boomerang/bdt.c" (N = 8, BCT, BDT and the       *)
(*              consistency check of main).                                *)
(*   SpecGimli  higher_order_gimli/higher_order.c.                         *)
(*                                                                         *)
(* C arrays are functions over 0..n-1.  A table (bct, bdt) is a function   *)
(* whose domain is the set of cells written so far: the C tables are       *)
(* uninitialised locals of main, and a cell has a value only once written. *)
(* So is temp of compute_derivative, empty until apply_diff fills it.       *)
(* A uint32_t is the set of positions of its one bits (a subset of 0..31). *)
(***************************************************************************)
EXTENDS Integers, Sequences, FiniteSets, TLC

VARIABLES
  prog,         \* which S-box program runs: "bct_present" or "bdt"
  sbox,         \* the sbox[] argument of compute_bct / compute_bdt
  inv_sbox,     \* the inv_sbox[] argument
  pc,           \* position of main
  a, b,         \* loop variables of compute_bct
  bct,          \* int bct[N][N] of main
  d0, d1, nabla0, \* loop variables of compute_bdt and of the check of main
  bdt,          \* int bdt[8][8][8] of main
  all_ok,       \* main of bdt.c
  valid_count,  \* main of bdt.c
  mismatches,   \* the (d0, nabla0) pairs printed as mismatches, in order
  visited,      \* the (d0, nabla0) pairs the check has compared, in order
  touched,      \* every array index evaluated by the engines so far
  fault,        \* TRUE once an array was indexed outside its bounds
  state,        \* uint32_t state[12] of main (higher_order.c)
  temp,         \* uint32_t temp[12] of compute_derivative
  w, order,     \* loop variables of main (higher_order.c)
  subset,       \* loop variable of compute_derivative
  result,       \* uint32_t result of compute_derivative
  round,        \* loop variable of gimli_permutation
  gpc,          \* position inside higher_order.c
  log,          \* the steps the running gimli_permutation call has done
  derivs        \* the derivatives main has printed: (w, order) -> value

sboxVars == <<prog, sbox, inv_sbox, pc, a, b, bct, d0, d1, nabla0, bdt,
              all_ok, valid_count, mismatches, visited, touched, fault>>
gimliVars == <<state, temp, w, order, subset, result, round, gpc, log, derivs>>
vars == <<sboxVars, gimliVars>>

(***************************************************************************)
(* Bounds of the model.                                                    *)
(***************************************************************************)
\* Entries 0..MaxPos-1 of an S-box array are overwritten to build the
\* non-bijective inputs.
MaxPos == 1

(***************************************************************************)
(* C operators on int.                                                     *)
(***************************************************************************)
RECURSIVE Xor(_, _)
Xor(x, y) ==
  IF x = 0 THEN y
  ELSE IF y = 0 THEN x
  ELSE (((x % 2) + (y % 2)) % 2) + (2 * Xor(x \div 2, y \div 2))

\* arr[i]; a read outside the array is undefined behaviour and yields g.
Rd(arr, i, g) == IF i \in DOMAIN arr THEN arr[i] ELSE g

Arr(seq) == [i \in 0..(Len(seq) - 1) |-> seq[i + 1]]

(***************************************************************************)
(* The hardcoded S-boxes.                                                  *)
(***************************************************************************)
SBOX_SIZE(p) == IF p = "bct_present" THEN 16 ELSE 8

\* The 16-entry S-box with its last entry mistyped, the 8-entry one with
\* two entries exchanged.
SBOXTypo(p) ==
  IF p = "bct_present"
  THEN Arr(<<12, 5, 6, 11, 9, 0, 10, 13, 3, 14, 15, 8, 4, 7, 1, 1>>)
  ELSE Arr(<<7, 4, 6, 1, 0, 5, 3, 2>>)

SBOX(p) ==
  IF p = "bct_present"
  THEN Arr(<<12, 5, 6, 11, 9, 0, 10, 13, 3, 14, 15, 8, 4, 7, 1, 2>>)
  ELSE Arr(<<7, 4, 6, 1, 0, 5, 2, 3>>)

INV_SBOX(p) ==
  IF p = "bct_present"
  THEN Arr(<<5, 14, 15, 8, 12, 1, 2, 13, 11, 4, 6, 3, 0, 7, 9, 10>>)
  ELSE Arr(<<4, 3, 6, 7, 1, 5, 2, 0>>)

Programs == {"bct_present", "bdt"}

(***************************************************************************)
(* Inputs of the engines: the hardcoded pair, and arrays of N values in    *)
(* [0,N) that are not mutual inverses (an entry overwritten, the S-box     *)
(* declared as its own inverse), and the identity pair.                    *)
(***************************************************************************)
Identity(n) == [i \in 0..(n - 1) |-> i]

Overwritten(arr, n) ==
  {[arr EXCEPT ![i] = v] : i \in 0..(MaxPos - 1), v \in 0..(n - 1)}

Pairs(p) ==
  LET n == SBOX_SIZE(p) IN
       {<<SBOX(p), INV_SBOX(p)>>}
  \cup {<<s, INV_SBOX(p)>> : s \in Overwritten(SBOX(p), n)}
  \cup {<<SBOX(p), i>> : i \in Overwritten(INV_SBOX(p), n)}
  \cup {<<SBOX(p), SBOX(p)>>, <<Identity(n), Identity(n)>>}

MutualInverse(s, i, n) ==
  \A v \in 0..(n - 1) : Rd(s, Rd(i, v, n), n) = v /\ Rd(i, Rd(s, v, n), n) = v

Declared == sbox = SBOX(prog) /\ inv_sbox = INV_SBOX(prog)

(***************************************************************************)
(* compute_bct: one (a, b) cell.                                           *)
(***************************************************************************)
\* y1 = inv_sbox[sbox[x] ^ b]
BoomY1(sb, inv, x, bb, g) == Rd(inv, Xor(Rd(sb, x, g), bb), g)

\* the index x ^ a of sbox in y2
ShiftedIndexPlus(x, aa) == x + aa
ShiftedIndex(x, aa) == Xor(x, aa)

\* y2 = inv_sbox[sbox[x ^ a] ^ b]
BoomY2(sb, inv, x, aa, bb, g) ==
  Rd(inv, Xor(Rd(sb, ShiftedIndex(x, aa), g), bb), g)

\* if ((y1 ^ y2) == a)
BctMatchEqual(y1, y2, aa) == y1 = y2
BctMatch(y1, y2, aa) == Xor(y1, y2) = aa

BctCount(sb, inv, aa, bb, n, g) ==
  Cardinality({x \in 0..(n - 1) :
     BctMatch(BoomY1(sb, inv, x, bb, g), BoomY2(sb, inv, x, aa, bb, g), aa)})

\* The array indexes one cell evaluates: x and x ^ a into sbox, sbox[x] ^ b
\* and sbox[x ^ a] ^ b into inv_sbox.
CellIndexes(sb, aa, bb, n, g) ==
  UNION {{x, ShiftedIndex(x, aa), Xor(Rd(sb, x, g), bb),
          Xor(Rd(sb, ShiftedIndex(x, aa), g), bb)} : x \in 0..(n - 1)}

\* The values a read outside an array may yield.
Garbage(n) == {0, n}

InBounds(idx, n) == idx \subseteq 0..(n - 1)

BctCell ==
  /\ LET n == SBOX_SIZE(prog) IN
     \E g \in Garbage(n) :
       LET idx == CellIndexes(sbox, a, b, n, g) IN
       /\ bct' = (<<a, b>> :> BctCount(sbox, inv_sbox, a, b, n, g)) @@ bct
       /\ touched' = touched \cup idx
       /\ fault' = (fault \/ ~InBounds(idx, n))
       /\ IF b < n - 1 THEN a' = a /\ b' = b + 1 /\ pc' = pc
          ELSE IF a < n - 1 THEN a' = a + 1 /\ b' = 0 /\ pc' = pc
          ELSE /\ a' = n /\ b' = n
               /\ pc' = IF prog = "bdt" THEN "compute_bdt" ELSE "done"
  /\ UNCHANGED <<prog, sbox, inv_sbox, d0, d1, nabla0, bdt, all_ok,
                 valid_count, mismatches, visited, gimliVars>>

\* main calling compute_bct only after checking that the pair is a pair of
\* mutual inverses, and ending in a configuration error otherwise.
BctStepValidated ==
  /\ pc = "compute_bct"
  /\ IF MutualInverse(sbox, inv_sbox, SBOX_SIZE(prog))
     THEN BctCell
     ELSE /\ pc' = "ConfigurationError"
          /\ UNCHANGED <<prog, sbox, inv_sbox, a, b, bct, d0, d1, nabla0, bdt,
                         all_ok, valid_count, mismatches, visited, touched,
                         fault, gimliVars>>

\* main: compute_bct(SBOX, INV_SBOX, bct), with no check of the pair.
BctStep ==
  /\ pc = "compute_bct"
  /\ BctCell

(***************************************************************************)
(* compute_bdt (bdt.c): one (d0, d1, nabla0) cell.                         *)
(***************************************************************************)
\* if ((y1 ^ y2) == d1)
BdtMatchInput(y1, y2, dd0, dd1) == Xor(y1, y2) = dd0 /\ dd1 = dd0
BdtMatch(y1, y2, dd0, dd1) == Xor(y1, y2) = dd1

BdtCount(sb, inv, dd0, dd1, nn0, n, g) ==
  Cardinality({x \in 0..(n - 1) :
     BdtMatch(BoomY1(sb, inv, x, nn0, g), BoomY2(sb, inv, x, dd0, nn0, g),
              dd0, dd1)})

BdtStep ==
  /\ pc = "compute_bdt"
  /\ LET n == SBOX_SIZE(prog) IN
     \E g \in Garbage(n) :
       LET idx == CellIndexes(sbox, d0, nabla0, n, g) IN
       /\ bdt' = (<<d0, d1, nabla0>> :>
                    BdtCount(sbox, inv_sbox, d0, d1, nabla0, n, g)) @@ bdt
       /\ touched' = touched \cup idx
       /\ fault' = (fault \/ ~InBounds(idx, n))
       /\ IF nabla0 < n - 1
          THEN d0' = d0 /\ d1' = d1 /\ nabla0' = nabla0 + 1 /\ pc' = pc
          ELSE IF d1 < n - 1
          THEN d0' = d0 /\ d1' = d1 + 1 /\ nabla0' = 0 /\ pc' = pc
          ELSE IF d0 < n - 1
          THEN d0' = d0 + 1 /\ d1' = 0 /\ nabla0' = 0 /\ pc' = pc
          ELSE d0' = 0 /\ d1' = 0 /\ nabla0' = 0 /\ pc' = "verify"
  /\ UNCHANGED <<prog, sbox, inv_sbox, a, b, bct, all_ok, valid_count,
                 mismatches, visited, gimliVars>>

(***************************************************************************)
(* main of bdt.c: the check BCT(d0, nabla0) = sum over d1 of BDT.          *)
(***************************************************************************)
RECURSIVE SumBdt(_, _, _, _)
\* for (d1 = 0; d1 < 8; d1++) sum += bdt[d0][d1][nabla0], from d1 = k on
SumBdt(t, dd0, nn0, k) ==
  IF k >= SBOX_SIZE("bdt") THEN 0
  ELSE t[<<dd0, k, nn0>>] + SumBdt(t, dd0, nn0, k + 1)

\* The loop variables after one iteration of the two nested loops.
VerifyAdvance ==
  LET n == SBOX_SIZE(prog) IN
  IF nabla0 < n - 1 THEN d0' = d0 /\ nabla0' = nabla0 + 1 /\ pc' = pc
  ELSE IF d0 < n - 1 THEN d0' = d0 + 1 /\ nabla0' = 0 /\ pc' = pc
  ELSE d0' = n /\ nabla0' = n /\ pc' = "done"

\* The same check leaving the loops at the first mismatch.
VerifyStepBreak ==
  /\ pc = "verify"
  /\ visited' = Append(visited, <<d0, nabla0>>)
  /\ IF SumBdt(bdt, d0, nabla0, 0) = bct[<<d0, nabla0>>]
     THEN /\ valid_count' = valid_count + 1
          /\ UNCHANGED <<all_ok, mismatches>>
          /\ VerifyAdvance
     ELSE /\ all_ok' = 0
          /\ mismatches' = Append(mismatches, <<d0, nabla0>>)
          /\ pc' = "done"
          /\ UNCHANGED <<valid_count, d0, nabla0>>
  /\ UNCHANGED <<prog, sbox, inv_sbox, a, b, bct, d1, bdt, touched, fault,
                 gimliVars>>

VerifyStep ==
  /\ pc = "verify"
  /\ visited' = Append(visited, <<d0, nabla0>>)
  /\ IF SumBdt(bdt, d0, nabla0, 0) = bct[<<d0, nabla0>>]
     THEN /\ valid_count' = valid_count + 1
          /\ UNCHANGED <<all_ok, mismatches>>
     ELSE /\ all_ok' = 0
          /\ mismatches' = Append(mismatches, <<d0, nabla0>>)
          /\ UNCHANGED valid_count
  /\ VerifyAdvance
  /\ UNCHANGED <<prog, sbox, inv_sbox, a, b, bct, d1, bdt, touched, fault,
                 gimliVars>>

(***************************************************************************)
(* The S-box programs.                                                     *)
(***************************************************************************)
GimliIdle ==
  /\ state = <<>> /\ temp = <<>> /\ w = 0 /\ order = 0 /\ subset = 0
  /\ result = {} /\ round = 0 /\ gpc = "idle" /\ log = <<>> /\ derivs = <<>>

Init ==
  /\ prog \in Programs
  /\ \E p \in Pairs(prog) : sbox = p[1] /\ inv_sbox = p[2]
  /\ pc = "compute_bct"
  /\ a = 0 /\ b = 0 /\ bct = <<>>
  /\ d0 = 0 /\ d1 = 0 /\ nabla0 = 0 /\ bdt = <<>>
  /\ all_ok = 1 /\ valid_count = 0
  /\ mismatches = <<>> /\ visited = <<>>
  /\ touched = {} /\ fault = FALSE
  /\ GimliIdle

Next == BctStep \/ BdtStep \/ VerifyStep

Spec == Init /\ [][Next]_vars

(***************************************************************************)
(* Claims about the S-box programs (checked under Spec).                   *)
(***************************************************************************)
Size == SBOX_SIZE(prog)
Cells2 == (0..(Size - 1)) \X (0..(Size - 1))
Cells3 == (0..(Size - 1)) \X (0..(Size - 1)) \X (0..(Size - 1))
ValuesInRange ==
  /\ DOMAIN sbox = 0..(Size - 1) /\ DOMAIN inv_sbox = 0..(Size - 1)
  /\ \A i \in 0..(Size - 1) : sbox[i] \in 0..(Size - 1) /\ inv_sbox[i] \in 0..(Size - 1)
Inverse == MutualInverse(sbox, inv_sbox, Size)
BdtFinished == prog = "bdt" /\ pc \in {"verify", "done"}
CheckFinished == prog = "bdt" /\ pc = "done"

\* C1: for the hardcoded 8-entry pair, the sum over d1 of bdt[d0][d1][nabla0]
\* equals bct[d0][nabla0] for every (d0, nabla0), and the check of main ends
\* with valid_count = 64, all_ok = 1 and no mismatch reported.
C1_SumIdentity ==
  (Declared /\ CheckFinished) =>
     /\ \A c \in Cells2 : SumBdt(bdt, c[1], c[2], 0) = bct[c]
     /\ valid_count = Size * Size
     /\ all_ok = 1
     /\ mismatches = <<>>

\* C2: for both hardcoded pairs, once compute_bct has returned,
\* bct[0][b] = N for every b and bct[a][0] = N for every a.
C2_ZeroRowColumn ==
  (Declared /\ pc # "compute_bct") =>
     \A k \in 0..(Size - 1) : bct[<<0, k>>] = Size /\ bct[<<k, 0>>] = Size

C2_Witness ==
  /\ Declared /\ prog = "bct_present" /\ pc = "done"
  /\ bct[<<0, 15>>] = 16 /\ bct[<<15, 0>>] = 16 /\ bct[<<1, 1>>] < 16

\* C3: each hardcoded SBOX / INV_SBOX pair handed to the engines is a pair
\* of mutually inverse permutations of [0,N).
C3_Bijection ==
  Declared =>
     \A v \in 0..(Size - 1) :
        /\ inv_sbox[v] \in 0..(Size - 1) /\ sbox[v] \in 0..(Size - 1)
        /\ sbox[inv_sbox[v]] = v /\ inv_sbox[sbox[v]] = v

C3_Witness ==
  /\ Declared /\ prog = "bct_present" /\ pc = "done"
  /\ sbox[inv_sbox[15]] = 15 /\ inv_sbox[sbox[15]] = 15

\* C6 as stated: for a pair that is not a pair of mutual inverses no BCT or
\* BDT cell is ever computed (the analysis stops before any engine runs).
C6_ConfigurationError ==
  ~Inverse => (bct = <<>> /\ bdt = <<>>)

\* C6 as amended: a pair with values in [0,N) that is not a pair of mutual
\* inverses is not validated; main never enters an error state, and at its
\* end the full BCT (and, in bdt.c, the full BDT) has been computed.
C6_NoValidation ==
  (~Inverse /\ ValuesInRange) =>
     /\ pc \in {"compute_bct", "compute_bdt", "verify", "done"}
     /\ pc = "done" => DOMAIN bct = Cells2
     /\ CheckFinished => DOMAIN bdt = Cells3

C6_Witness ==
  /\ ~Inverse /\ ValuesInRange /\ CheckFinished
  /\ DOMAIN bct = Cells2 /\ DOMAIN bdt = Cells3

\* C7: for arrays of N values in [0,N), bijective or not, every array index
\* compute_bct and compute_bdt evaluate lies in [0,N), no read is out of
\* bounds, and every cell written is a count in [0,N].
C7_IndexesInRange ==
  ValuesInRange =>
     /\ touched \subseteq 0..(Size - 1)
     /\ ~fault
     /\ \A c \in DOMAIN bct : bct[c] \in 0..Size
     /\ \A c \in DOMAIN bdt : bdt[c] \in 0..Size

C7_Witness ==
  /\ ValuesInRange /\ ~Inverse /\ CheckFinished
  /\ \E i, j \in 0..(Size - 1) : i # j /\ sbox[i] = sbox[j]
  /\ touched = 0..(Size - 1)
  /\ DOMAIN bdt = Cells3

\* C9: the check of main visits each of the 64 (d0, nabla0) pairs exactly
\* once and in order, whatever it finds, so that at the end valid_count plus
\* the number of reported mismatches is 64 and all_ok = 1 iff
\* valid_count = 64; and no step of the check writes to bct or bdt.
C9_CheckEnd ==
  CheckFinished =>
     /\ Len(visited) = Size * Size
     /\ {visited[i] : i \in 1..Len(visited)} = Cells2
     /\ \A i \in 1..Len(visited) :
           visited[i] = <<(i - 1) \div Size, (i - 1) % Size>>
     /\ {mismatches[i] : i \in 1..Len(mismatches)} =
           {c \in Cells2 : SumBdt(bdt, c[1], c[2], 0) # bct[c]}
     /\ valid_count + Len(mismatches) = Size * Size
     /\ (all_ok = 1) <=> (valid_count = Size * Size)

\* C9: the check of main is a non-fatal diagnostic: it ends as C9_CheckEnd
\* says, and while it runs no step writes to bct or bdt or leaves the check
\* other than by finishing it.
C9_Diagnostic ==
  /\ []C9_CheckEnd
  /\ [][pc = "verify" => (bct' = bct /\ bdt' = bdt /\ pc' \in {"verify", "done"})]_vars

C9_Witness ==
  /\ CheckFinished /\ all_ok = 0
  /\ Len(mismatches) > 0 /\ valid_count > 0 /\ Len(visited) = 64

Bit == 0..31

RECURSIVE BitsFrom(_, _)
BitsFrom(n, i) ==
  IF n = 0 \/ i \notin Bit THEN {}
  ELSE (IF n % 2 = 1 THEN {i} ELSE {}) \cup BitsFrom(n \div 2, i + 1)

\* The uint32_t of a non-negative int.
Word(n) == BitsFrom(n, 0)

XOR32(x, y) == (x \ y) \cup (y \ x)
AND32(x, y) == x \cap y
OR32(x, y) == x \cup y
SHL32(x, k) == {i + k : i \in x} \cap Bit
SHR32(x, k) == {i - k : i \in x} \cap Bit

\* #define ROTL32(x,b) (((x)<<(b)) | ((x)>>(32-(b))))
ROTL32(x, k) == OR32(SHL32(x, k), SHR32(x, 32 - k))

\* x & y on int
RECURSIVE AndInt(_, _)
AndInt(x, y) ==
  IF x = 0 \/ y = 0 THEN 0
  ELSE ((x % 2) * (y % 2)) + (2 * AndInt(x \div 2, y \div 2))

\* 0x9e377900
GimliConstant == {8, 11, 12, 13, 14, 16, 17, 18, 20, 21, 25, 26, 27, 28, 31}

\* for (int round = 4; round >= 1; round--)
FirstRound == 4

\* One iteration of the loop over col.
Column(st, col) ==
  LET x == ROTL32(st[col], 24)
      y == ROTL32(st[col + 4], 9)
      z == st[col + 8]
  IN [st EXCEPT
        ![col + 8] = XOR32(XOR32(x, SHL32(z, 1)), SHL32(AND32(y, z), 2)),
        ![col + 4] = XOR32(XOR32(y, x), SHL32(OR32(x, z), 1)),
        ![col] = XOR32(XOR32(z, y), SHL32(AND32(x, y), 3))]

\* for (int col = 0; col < 4; col++)
Columns(st) == Column(Column(Column(Column(st, 0), 1), 2), 3)

\* if ((round & 3) == 0)
SmallSwapDueOdd(r) == AndInt(r, 3) = 1
SmallSwapDue(r) == AndInt(r, 3) = 0

\* if ((round & 3) == 2)
BigSwapDue(r) == AndInt(r, 3) = 2

SmallSwap(st, r) ==
  [st EXCEPT ![0] = XOR32(st[1], XOR32(GimliConstant, Word(r))),
             ![1] = st[0], ![2] = st[3], ![3] = st[2]]

BigSwap(st) ==
  [st EXCEPT ![0] = st[2], ![2] = st[0], ![1] = st[3], ![3] = st[1]]

\* One round of gimli_permutation.
GimliRound(st, r) ==
  LET c == Columns(st)
      s == IF SmallSwapDue(r) THEN SmallSwap(c, r) ELSE c
  IN IF BigSwapDue(r) THEN BigSwap(s) ELSE s

RECURSIVE GimliRounds(_, _)
GimliRounds(st, r) ==
  IF r >= 1 THEN GimliRounds(GimliRound(st, r), r - 1) ELSE st

\* gimli_permutation as a function of the state it is given.
gimli_permutation(st) == GimliRounds(st, FirstRound)

\* generate_bit_basis: basis[i] = 1U << i
BasisShifted(i) == SHL32(Word(1), i + 1)
Basis(i) == SHL32(Word(1), i)

RECURSIVE DiffLoop(_, _, _, _, _)
\* for (i = 0; i < order; i++) if (subset & (1 << i)) t[word_index] ^= basis[i]
DiffLoop(t, ord, word_index, sub, i) ==
  IF i >= ord THEN t
  ELSE DiffLoop(IF AndInt(sub, 2 ^ i) # 0
                THEN [t EXCEPT ![word_index] = XOR32(t[word_index], Basis(i))]
                ELSE t,
                ord, word_index, sub, i + 1)

\* apply_diff perturbing base itself and copying it to temp afterwards.
ApplyDiffInPlace(base, tmp, ord, word_index, sub) ==
  LET t == DiffLoop(base, ord, word_index, sub, 0) IN [base |-> t, temp |-> t]

\* apply_diff: the two arrays it is handed, after the call.
ApplyDiff(base, tmp, ord, word_index, sub) ==
  [base |-> base, temp |-> DiffLoop(base, ord, word_index, sub, 0)]

(***************************************************************************)
(* higher_order.c: main, compute_derivative and gimli_permutation, step by *)
(* step.                                                                   *)
(***************************************************************************)
Words == 0..11
Orders == 1..4

\* uint32_t state[12] = {1,0,0,0, 0,0,0,0, 0,0,0,0}
MainState == [i \in Words |-> IF i = 0 THEN Word(1) ELSE Word(0)]

\* Seeds of the other 12-word states compute_derivative is tried on.
MaxSeed == 2

InputState(s) ==
  IF s = 0 THEN MainState
  ELSE [i \in Words |->
          Word(s * (7 * i + 3)) \cup (IF i % 2 = s % 2 THEN {31 - i, 24 - s} ELSE {9 + i})]

SboxIdle ==
  /\ prog = "higher_order" /\ sbox = <<>> /\ inv_sbox = <<>> /\ pc = "idle"
  /\ a = 0 /\ b = 0 /\ bct = <<>> /\ d0 = 0 /\ d1 = 0 /\ nabla0 = 0
  /\ bdt = <<>> /\ all_ok = 1 /\ valid_count = 0 /\ mismatches = <<>>
  /\ visited = <<>> /\ touched = {} /\ fault = FALSE

InitGimli ==
  /\ SboxIdle
  /\ \E s \in 0..MaxSeed : state = InputState(s)
  /\ temp = <<>>
  /\ w = 0 /\ order = 1 /\ subset = 0 /\ result = Word(0)
  /\ round = 0 /\ gpc = "call" /\ log = <<>> /\ derivs = <<>>

\* main: uint32_t d = compute_derivative(state, w, order), up to the loop.
CallDerivative ==
  /\ gpc = "call"
  /\ result' = Word(0)
  /\ subset' = 0
  /\ gpc' = "subset_loop"
  /\ UNCHANGED <<state, temp, w, order, round, log, derivs, sboxVars>>

\* compute_derivative: apply_diff(base, temp, order, basis, word_index, subset)
\* and the entry of gimli_permutation(temp).
ApplyDiffStep ==
  /\ gpc = "subset_loop"
  /\ subset < 2 ^ order
  /\ LET r == ApplyDiff(state, temp, order, w, subset) IN
       state' = r.base /\ temp' = r.temp
  /\ round' = FirstRound
  /\ log' = <<>>
  /\ gpc' = "columns"
  /\ UNCHANGED <<w, order, subset, result, derivs, sboxVars>>

GimliColumns ==
  /\ gpc = "columns"
  /\ temp' = Columns(temp)
  /\ log' = Append(log, <<round, "columns">>)
  /\ gpc' = "small_swap"
  /\ UNCHANGED <<state, w, order, subset, result, round, derivs, sboxVars>>

GimliSmallSwap ==
  /\ gpc = "small_swap"
  /\ SmallSwapDue(round)
  /\ temp' = SmallSwap(temp, round)
  /\ log' = Append(log, <<round, "small_swap">>)
  /\ gpc' = "big_swap"
  /\ UNCHANGED <<state, w, order, subset, result, round, derivs, sboxVars>>

GimliNoSmallSwap ==
  /\ gpc = "small_swap"
  /\ ~SmallSwapDue(round)
  /\ gpc' = "big_swap"
  /\ UNCHANGED <<state, temp, w, order, subset, result, round, log, derivs,
                 sboxVars>>

\* round--, and the loop test round >= 1
RoundEnd ==
  /\ round' = round - 1
  /\ gpc' = IF round - 1 >= 1 THEN "columns" ELSE "accumulate"

GimliBigSwap ==
  /\ gpc = "big_swap"
  /\ BigSwapDue(round)
  /\ temp' = BigSwap(temp)
  /\ log' = Append(log, <<round, "big_swap">>)
  /\ RoundEnd
  /\ UNCHANGED <<state, w, order, subset, result, derivs, sboxVars>>

GimliNoBigSwap ==
  /\ gpc = "big_swap"
  /\ ~BigSwapDue(round)
  /\ RoundEnd
  /\ UNCHANGED <<state, temp, w, order, subset, result, log, derivs, sboxVars>>

\* compute_derivative: result ^= temp[word_index]; subset++
Accumulate ==
  /\ gpc = "accumulate"
  /\ result' = XOR32(result, temp[w])
  /\ subset' = subset + 1
  /\ gpc' = "subset_loop"
  /\ UNCHANGED <<state, temp, w, order, round, log, derivs, sboxVars>>

\* compute_derivative returns; main prints d and goes to the next query.
ReturnDerivative ==
  /\ gpc = "subset_loop"
  /\ subset >= 2 ^ order
  /\ derivs' = (<<w, order>> :> result) @@ derivs
  /\ IF order < 4 THEN w' = w /\ order' = order + 1 /\ gpc' = "call"
     ELSE IF w < 11 THEN w' = w + 1 /\ order' = 1 /\ gpc' = "call"
     ELSE w' = w /\ order' = order /\ gpc' = "done"
  /\ UNCHANGED <<state, temp, subset, result, round, log, sboxVars>>

NextGimli ==
  \/ CallDerivative
  \/ ApplyDiffStep
  \/ GimliColumns
  \/ GimliSmallSwap
  \/ GimliNoSmallSwap
  \/ GimliBigSwap
  \/ GimliNoBigSwap
  \/ Accumulate
  \/ ReturnDerivative

SpecGimli == InitGimli /\ [][NextGimli]_vars

(***************************************************************************)
(* Claims about higher_order.c (checked under SpecGimli).                  *)
(***************************************************************************)
Returning == gpc = "subset_loop" /\ subset >= 2 ^ order

FlipBit0(st, i) == [st EXCEPT ![i] = XOR32(st[i], Word(1))]

\* C4: compute_derivative(state, w, 1) equals P(state)[w] XOR P(state')[w],
\* where P is gimli_permutation on a copy and state' is state with only bit
\* 0 of word w flipped.
C4_OrderOne ==
  (Returning /\ order = 1) =>
     result = XOR32(gimli_permutation(state)[w],
                    gimli_permutation(FlipBit0(state, w))[w])

C4_Witness ==
  /\ Returning /\ order = 1 /\ w = 8 /\ state = MainState
  /\ result = XOR32(gimli_permutation(state)[w],
                    gimli_permutation(FlipBit0(state, w))[w])
  /\ result = {3, 5, 15, 23, 26, 30}

\* C5: compute_derivative never modifies its base state: no step changes a
\* word of state, apply_diff leaves in temp a copy of state perturbed in word
\* w only, and all 48 queries of main have been made on that state at the end.
C5_TempIsPerturbedCopy ==
  (gpc = "columns" /\ round = FirstRound) =>
     /\ \A i \in Words \ {w} : temp[i] = state[i]
     /\ temp[w] = XOR32(state[w], Word(subset))

C5_AllQueries ==
  gpc = "done" => DOMAIN derivs = Words \X Orders

\* C5: compute_derivative never modifies its base state (the two state
\* predicates above always hold, and no step changes state).
C5_BaseUnchanged ==
  /\ [](C5_TempIsPerturbedCopy /\ C5_AllQueries)
  /\ [][state' = state]_vars

C5_Witness ==
  /\ gpc = "done" /\ state = MainState /\ temp # state
  /\ DOMAIN derivs = Words \X Orders
  /\ Cardinality(DOMAIN derivs) = 48

\* C8: one call of gimli_permutation does, in this order, the column step of
\* round 4, the swap of words 0<->1 and 2<->3 with 0x9e377900 ^ round XORed
\* into word 0, the column steps of rounds 3 and 2, the swap of words 0<->2
\* and 1<->3, and the column step of round 1; words 4..11 change only in
\* column steps.
ExpectedLog ==
  << <<4, "columns">>, <<4, "small_swap">>, <<3, "columns">>,
     <<2, "columns">>, <<2, "big_swap">>, <<1, "columns">> >>

C8_LogIsPrefix ==
  /\ Len(log) <= Len(ExpectedLog)
  /\ \A i \in 1..Len(log) : log[i] = ExpectedLog[i]

C8_CallDone ==
  gpc = "accumulate" => (log = ExpectedLog /\ round = 0)

C8_SwapSteps ==
  /\ (gpc = "small_swap" /\ log' # log) =>
        /\ temp'[0] = XOR32(temp[1], XOR32(GimliConstant, Word(round)))
        /\ temp'[1] = temp[0] /\ temp'[2] = temp[3] /\ temp'[3] = temp[2]
  /\ (gpc = "big_swap" /\ log' # log) =>
        /\ temp'[0] = temp[2] /\ temp'[2] = temp[0]
        /\ temp'[1] = temp[3] /\ temp'[3] = temp[1]
  /\ gpc \in {"small_swap", "big_swap"} =>
        \A i \in 4..11 : temp'[i] = temp[i]

\* C8: the steps of every gimli_permutation call follow ExpectedLog, the
\* two swaps do what C8_SwapSteps says, and only column steps change words
\* 4..11.
C8_RoundSchedule ==
  /\ [](C8_LogIsPrefix /\ C8_CallDone)
  /\ [][C8_SwapSteps]_vars

C8_Witness ==
  /\ gpc = "accumulate" /\ log = ExpectedLog
  /\ w = 0 /\ order = 1 /\ subset = 0 /\ state = MainState
  /\ temp[0] = {0, 3, 10, 11, 12, 13, 14, 15, 18, 19, 20, 23, 24}

====
